---- MODULE Spec2Model ----
(***************************************************************************)
(* snx-rs: the client-side service controller (src/controller.rs) and the  *)
(* IPsec tunnel lifecycle (src/tunnel/ipsec.rs).                           *)
(*                                                                         *)
(* Spec       one ServiceController executing one command.                 *)
(* TunnelSpec the tunnels a driver creates, runs, abandons and drops.      *)
(***************************************************************************)
EXTENDS Integers, Sequences, FiniteSets, TLC

(***************************************************************************)
(* Bounds of the model.                                                    *)
(***************************************************************************)
\* IPC requests one command may send before the model stops following it.
MaxReqs == 5
\* Longest queue of password prompts the server declares.
MaxQueue == 2
\* Tunnels the driver creates.
MaxTunnels == 1

(***************************************************************************)
(* Program constants.                                                      *)
(***************************************************************************)
RECV_TIMEOUT == 2
CONNECT_TIMEOUT == 120

(***************************************************************************)
(* Text.  A text is a sequence of pieces; what the user types is a         *)
(* sequence of characters, so that trimming is computed.                   *)
(***************************************************************************)
IsWhitespace(c) == c \in {" ", "\t", "\n"}

RECURSIVE trim_start(_)
trim_start(s) ==
    IF s = <<>> THEN s
    ELSE IF IsWhitespace(Head(s)) THEN trim_start(Tail(s)) ELSE s

RECURSIVE trim_end(_)
trim_end(s) ==
    IF s = <<>> THEN s
    ELSE IF IsWhitespace(s[Len(s)]) THEN trim_end(SubSeq(s, 1, Len(s) - 1)) ELSE s

trim(s) == trim_end(trim_start(s))

\* format!("Enter password for {}: ", params.user_name)
DefaultPwdPrompt(user) == <<"Enter password for ", user, ": ">>

(***************************************************************************)
(* Inputs.                                                                 *)
(***************************************************************************)
Users == {"alice", "bob"}
ServerNames == {"", "gw"}
LoginTypes == {"", "vpn"}
\* the password of the configuration file
Passwords == {<<>>, <<"p", "w">>}
\* what the keychain holds
KeychainPasswords == {<<"k", "c">>}
\* what the user types at a password prompt
TypedLines == {<<"s", "3">>, <<" ", "s", "3", "\n">>}
\* what the user types at an MFA prompt, what the OTP listener receives
TypedCodes == {<<" ", "7">>}
OtpCodes == {<<"123456">>}
\* the password prompts the server declares, in its order
ServerPrompts == <<<<"Gateway password: ">>, <<"PIN: ">>, <<"Token: ">>>>
ErrorMessages == {"denied"}

\* what get_pwd_prompts yields: the first prompts of the server's list, none
\* when the fetch fails
PromptQueues == {SubSeq(ServerPrompts, 1, n) : n \in 0..MaxQueue}

TunnelParams ==
    [server_name : ServerNames, login_type : LoginTypes, user_name : Users,
     password : Passwords, client_cert : BOOLEAN, no_keychain : BOOLEAN]

MfaPrompt(t) == IF t = "UserInput" THEN <<"Enter OTP: ">> ELSE <<"https://example/sso">>

\* TunnelServiceResponse, and the Err of send_receive ("transport")
Responses ==
    {[kind |-> "transport", msg |-> "", cs |-> FALSE, mfa |-> "none"],
     [kind |-> "Ok", msg |-> "", cs |-> FALSE, mfa |-> "none"]}
    \cup {[kind |-> "Error", msg |-> m, cs |-> FALSE, mfa |-> "none"] : m \in ErrorMessages}
    \cup {[kind |-> "ConnectionStatus", msg |-> "", cs |-> c, mfa |-> t] :
             c \in BOOLEAN, t \in {"none", "UserInput", "SamlSso"}}

\* The replies the service gives to a request of a kind: every reply to
\* GetStatus; to the others Ok, Error, no reply, and one ConnectionStatus
\* standing for the unexpected variant.
RepliesTo(kind) ==
    IF kind = "GetStatus" THEN Responses
    ELSE {r \in Responses : r.kind = "ConnectionStatus" => (~r.cs /\ r.mfa = "none")}

VARIABLES
    cmd,          \* the ServiceCommand being executed, "none" before
    pc,           \* the function the controller is about to execute
    ret,          \* who awaits the ConnectionStatus result being computed
    params,       \* ServiceController.params
    pwd_prompts,  \* ServiceController.pwd_prompts: [some, q]
    mfa,          \* the MfaChallenge being resolved
    input,        \* the resolved MFA input
    result,       \* what command returned
    ignored,      \* the result Reconnect discarded (let _ = ...)
    log           \* every call to a collaborator, in order

ctlVars == <<cmd, pc, ret, params, pwd_prompts, mfa, input, result, ignored, log>>

VARIABLES
    cpc,          \* per tunnel: where SnxIpsecTunnel::create is
    rpc,          \* per tunnel: where SnxIpsecTunnel::run is
    dpc,          \* per tunnel: where Drop::drop is
    wpc,          \* per tunnel: where the scoped worker thread of drop is
    configures,   \* per tunnel: calls of configurator.configure
    cleanups,     \* per tunnel: calls of configurator.cleanup
    cleaned,      \* per tunnel: configurator.cleanup has returned
    listener,     \* per tunnel: the decapsulation listener and its stop handle
    connected,    \* per tunnel: the AtomicBool handed to run
    stop,         \* per tunnel: the oneshot channel behind stop_receiver
    run_result,   \* per tunnel: the value run evaluates to
    keepalive     \* per tunnel: the future of keepalive_runner.run()

tunVars == <<cpc, rpc, dpc, wpc, configures, cleanups, cleaned, listener, connected, stop,
             run_result, keepalive>>

vars == <<ctlVars, tunVars>>

(***************************************************************************)
(* The log of calls to collaborators.                                      *)
(***************************************************************************)
Event(ev, kind, txt, pw, user, t) ==
    [ev |-> ev, kind |-> kind, txt |-> txt, pw |-> pw, user |-> user, t |-> t,
     cs |-> FALSE, mfa |-> "none"]

ReqEvent(kind, code, p, timeout) == Event("req", kind, code, p.password, p.user_name, timeout)

RespEvent(r) ==
    [ev |-> "resp", kind |-> r.kind, txt |-> <<r.msg>>, pw |-> <<>>, user |-> "", t |-> 0,
     cs |-> r.cs, mfa |-> r.mfa]

IsReq(e) == e.ev = "req"
NumReqs == Cardinality({i \in 1..Len(log) : IsReq(log[i])})

\* anyhow::Result<ConnectionStatus>
NoResult == [kind |-> "none", msg |-> "", by |-> "", at |-> 0, cs |-> FALSE, mfa |-> "none"]
OkStatus(r, by, at) ==
    [kind |-> "ok", msg |-> "", by |-> by, at |-> at, cs |-> r.cs, mfa |-> r.mfa]
Err(kind, msg, by, at) ==
    [kind |-> kind, msg |-> msg, by |-> by, at |-> at, cs |-> FALSE, mfa |-> "none"]

(***************************************************************************)
(* Results of the fallible collaborators.                                  *)
(***************************************************************************)
Failed == [ok |-> FALSE, val |-> <<>>]
Got(v) == [ok |-> TRUE, val |-> v]
\* platform::acquire_password
KeychainResults == {Failed} \cup {Got(k) : k \in KeychainPasswords}
\* SecurePrompt::get_secure_input for a password
PwdPromptResults == {Failed} \cup {Got(l) : l \in TypedLines}
\* SecurePrompt::get_secure_input for an MFA challenge
MfaPromptResults == {Failed} \cup {Got(c) : c \in TypedCodes}
\* opener::open, then timeout(OTP_TIMEOUT, run_otp_listener())
SsoResults ==
    {[open |-> FALSE, otp |-> "none", val |-> <<>>],
     [open |-> TRUE, otp |-> "timeout", val |-> <<>>],
     [open |-> TRUE, otp |-> "error", val |-> <<>>]}
    \cup {[open |-> TRUE, otp |-> "code", val |-> c] : c \in OtpCodes}

(***************************************************************************)
(* The conditions of the code.                                             *)
(***************************************************************************)
\* the challenge test without the look at connected_since
StatusNeedsMfa_any(r) == r.mfa # "none"

\* if let (None, Some(mfa)) = (status.connected_since, &status.mfa)
StatusNeedsMfa(r) == ~r.cs /\ r.mfa # "none"

\* the match of get_mfa_input with its arms exchanged
IsUserInput_swapped(m) == m = "SamlSso"

\* match mfa.mfa_type { MfaType::UserInput => .., MfaType::SamlSso => .. }
IsUserInput(m) == m = "UserInput"

\* the OTP wait with its timeout and listener errors let through
OtpArrived_lenient(sso) == sso.open

\* opener::open(..)? succeeded and timeout(OTP_TIMEOUT, run_otp_listener()).await??
\* yielded a code
OtpArrived(sso) == sso.open /\ sso.otp = "code"

\* the store condition without the look at the password
ShouldStorePassword_always(r, p) == r.cs /\ ~p.no_keychain

\* the condition guarding platform::store_password
ShouldStorePassword(r, p) == r.cs /\ p.password # <<>> /\ ~p.no_keychain

\* params.server_name.is_empty() || params.login_type.is_empty()
MissingParams(p) == p.server_name = "" \/ p.login_type = ""

\* params.password.is_empty() && params.client_cert.is_none()
NeedsPassword(p) == p.password = <<>> /\ ~p.client_cert

\* pwd_prompts.as_mut().and_then(|deque| deque.pop_front()).unwrap_or(format!(..))
PwdPromptText(pp, user) ==
    IF pp.some /\ pp.q # <<>> THEN Head(pp.q) ELSE DefaultPwdPrompt(user)

PwdPromptsAfterPop(pp) ==
    IF pp.some /\ pp.q # <<>> THEN [pp EXCEPT !.q = Tail(pp.q)] ELSE pp

\* the typed line taken as it is
TypedPassword_untrimmed(line) == line

\* the password the interactive prompt yields: get_secure_input(..)?.trim().to_owned()
TypedPassword(line) == trim(line)

\* How each function reads the reply to its request: "ok", or the kind of error.
\* do_status reading a missing reply as one more unexpected variant
StatusReply_conflated(r) == IF r.kind = "ConnectionStatus" THEN "ok" ELSE "invalid"

\* do_status
StatusReply(r) ==
    CASE r.kind = "ConnectionStatus" -> "ok"
      [] r.kind = "transport" -> "transport"
      [] OTHER -> "invalid"

\* do_connect and do_challenge_code
ConnectReply(r) ==
    CASE r.kind = "Ok" -> "ok"
      [] r.kind = "Error" -> "protocol"
      [] r.kind = "transport" -> "transport"
      [] OTHER -> "invalid"

\* do_disconnect reading its reply the way do_connect does
DisconnectReply_checked(r) == ConnectReply(r)

\* do_disconnect: send_receive(..).await?
DisconnectReply(r) == IF r.kind = "transport" THEN "transport" ELSE "ok"

\* Reconnect with do_disconnect().await? in place of let _ =
ReconnectAfterDisconnect_propagating(r) == IF r.kind = "ok" THEN "fill" ELSE "done"

\* let _ = self.do_disconnect().await: where Reconnect goes on a result r
ReconnectAfterDisconnect(r) == "fill"

(***************************************************************************)
(* Init: a controller with a configuration, before command is called.      *)
(***************************************************************************)
CtlInit ==
    /\ cmd = "none"
    /\ pc = "idle"
    /\ ret = "final"
    /\ params \in TunnelParams
    /\ pwd_prompts = [some |-> FALSE, q |-> <<>>]
    /\ mfa = "none"
    /\ input = <<>>
    /\ result = NoResult
    /\ ignored = NoResult
    /\ log = <<>>

(***************************************************************************)
(* A function returns r to whoever awaits it.                              *)
(***************************************************************************)
\* Connect: self.do_status().await?; whether do_connect follows a status r
ConnectFollows_unlessConnected(r) == r.kind = "ok" /\ ~r.cs

ConnectFollows(r) == r.kind = "ok"

Return(r) ==
    CASE ret = "connect_pre" /\ ConnectFollows(r) ->
            \* self.do_status().await?; self.do_connect().await
            /\ pc' = "do_connect"
            /\ ret' = "final"
            /\ UNCHANGED <<result, ignored>>
      [] ret = "disc_pre" /\ r.kind = "ok" ->
            \* self.do_status().await?; self.do_disconnect().await
            /\ pc' = "do_disconnect"
            /\ ret' = "final"
            /\ UNCHANGED <<result, ignored>>
      [] ret = "recon_disc" ->
            /\ pc' = ReconnectAfterDisconnect(r)
            /\ ret' = IF pc' = "done" THEN "final" ELSE ret
            /\ IF pc' = "done"
               THEN result' = r /\ UNCHANGED ignored
               ELSE ignored' = r /\ UNCHANGED result
      [] OTHER ->
            /\ pc' = "done"
            /\ ret' = "final"
            /\ result' = r
            /\ UNCHANGED ignored

(***************************************************************************)
(* ServiceController::command                                              *)
(***************************************************************************)
command(c) ==
    /\ pc = "idle"
    /\ cmd' = c
    /\ pc' = CASE c = "Status" -> "do_status"
               [] c = "Connect" -> "fill"
               [] c = "Disconnect" -> "do_status"
               [] c = "Reconnect" -> "do_disconnect"
               [] OTHER -> "do_info"
    /\ ret' = CASE c = "Disconnect" -> "disc_pre"
                [] c = "Reconnect" -> "recon_disc"
                [] OTHER -> "final"
    /\ UNCHANGED <<params, pwd_prompts, mfa, input, result, ignored, log>>
    /\ UNCHANGED tunVars

(***************************************************************************)
(* ServiceController::fill_pwd_prompts, and what command does next         *)
(***************************************************************************)
fill_pwd_prompts ==
    /\ pc = "fill"
    /\ \E q \in PromptQueues :
          \* get_pwd_prompts(..).await.unwrap_or_default(): a failure gives <<>>
          /\ pwd_prompts' = [some |-> TRUE, q |-> q]
          /\ log' = Append(log, Event("fill", "", <<>>, <<>>, params.user_name, 0))
    /\ IF cmd = "Connect"
       THEN pc' = "do_status" /\ ret' = "connect_pre"
       ELSE pc' = "do_connect" /\ ret' = "final"
    /\ UNCHANGED <<cmd, params, mfa, input, result, ignored>>
    /\ UNCHANGED tunVars

(***************************************************************************)
(* ServiceController::do_status                                            *)
(***************************************************************************)
do_status ==
    /\ pc = "do_status"
    /\ NumReqs < MaxReqs
    /\ \E r \in RepliesTo("GetStatus") :
          LET sent == log \o <<ReqEvent("GetStatus", <<>>, params, RECV_TIMEOUT), RespEvent(r)>>
              how  == StatusReply(r)
          IN  IF how = "ok" /\ StatusNeedsMfa(r)
              THEN /\ pc' = "get_mfa_input"
                   /\ mfa' = r.mfa
                   /\ log' = sent
                   /\ UNCHANGED <<ret, result, ignored>>
              ELSE IF how = "ok"
              THEN /\ log' = IF ShouldStorePassword(r, params)
                             THEN Append(sent, Event("store", "", <<>>, params.password,
                                                     params.user_name, 0))
                             ELSE sent
                   /\ Return(OkStatus(r, "do_status", Len(sent)))
                   /\ UNCHANGED mfa
              ELSE /\ log' = sent
                   /\ Return(Err(how, "", "do_status", Len(sent)))
                   /\ UNCHANGED mfa
    /\ UNCHANGED <<cmd, params, pwd_prompts, input>>
    /\ UNCHANGED tunVars

(***************************************************************************)
(* ServiceController::get_mfa_input, and do_status going on                *)
(***************************************************************************)
get_mfa_input ==
    /\ pc = "get_mfa_input"
    /\ IF IsUserInput(mfa)
       THEN \E typed \in MfaPromptResults :
              LET asked == Append(log, Event("prompt", "mfa", MfaPrompt(mfa), typed.val, "", 0))
              IN  /\ log' = asked
                  /\ IF typed.ok
                     THEN /\ pc' = "do_challenge_code"
                          /\ input' = typed.val
                          /\ UNCHANGED <<ret, result, ignored>>
                     ELSE /\ Return(Err("prompt", "", "get_mfa_input", Len(asked)))
                          /\ UNCHANGED input
       ELSE \E sso \in SsoResults :
              LET opened == Append(log, Event("open", IF sso.open THEN "ok" ELSE "failed",
                                              MfaPrompt(mfa), <<>>, "", 0))
                  waited == IF sso.open
                            THEN Append(opened, Event("otp", sso.otp, sso.val, <<>>, "", 0))
                            ELSE opened
              IN  /\ log' = waited
                  /\ IF OtpArrived(sso)
                     THEN /\ pc' = "do_challenge_code"
                          /\ input' = sso.val
                          /\ UNCHANGED <<ret, result, ignored>>
                     ELSE /\ Return(Err("sso", "", "get_mfa_input", Len(waited)))
                          /\ UNCHANGED input
    /\ UNCHANGED <<cmd, params, pwd_prompts, mfa>>
    /\ UNCHANGED tunVars

(***************************************************************************)
(* ServiceController::do_challenge_code                                    *)
(***************************************************************************)
do_challenge_code ==
    /\ pc = "do_challenge_code"
    /\ NumReqs < MaxReqs
    /\ \E r \in RepliesTo("ChallengeCode") :
          LET sent == log \o <<ReqEvent("ChallengeCode", input, params, CONNECT_TIMEOUT),
                               RespEvent(r)>>
              how  == ConnectReply(r)
          IN  /\ log' = sent
              /\ IF how = "ok"
                 THEN pc' = "do_status" /\ UNCHANGED <<ret, result, ignored>>
                 ELSE Return(Err(how, r.msg, "do_challenge_code", Len(sent)))
    /\ UNCHANGED <<cmd, params, pwd_prompts, mfa, input>>
    /\ UNCHANGED tunVars

(***************************************************************************)
(* ServiceController::do_connect                                           *)
(***************************************************************************)
\* self.prompt.get_secure_input(&prompt)? with the error defaulted away
PromptFailed_defaulted(typed) == FALSE

\* self.prompt.get_secure_input(&prompt)?
PromptFailed(typed) == ~typed.ok

\* The password acquisition of do_connect: whether it failed, the params and
\* the prompt queue after it, and the collaborators it called.
AcquirePassword_fallback(p, pp, kr, typed) ==
    IF ~NeedsPassword(p)
    THEN [failed |-> FALSE, params |-> p, pp |-> pp, calls |-> <<>>]
    ELSE IF ~p.no_keychain /\ kr.ok
    THEN [failed |-> FALSE,
          params |-> [p EXCEPT !.password = kr.val],
          pp     |-> pp,
          calls  |-> <<Event("acquire", "ok", <<>>, kr.val, p.user_name, 0)>>]
    ELSE [failed |-> PromptFailed(typed),
          params |-> IF typed.ok THEN [p EXCEPT !.password = TypedPassword(typed.val)] ELSE p,
          pp     |-> PwdPromptsAfterPop(pp),
          calls  |-> <<Event("prompt", "pwd", PwdPromptText(pp, p.user_name), typed.val,
                             p.user_name, 0)>>]

AcquirePassword(p, pp, kr, typed) ==
    IF ~NeedsPassword(p)
    THEN [failed |-> FALSE, params |-> p, pp |-> pp, calls |-> <<>>]
    ELSE IF ~p.no_keychain
    THEN [failed |-> FALSE,
          params |-> IF kr.ok THEN [p EXCEPT !.password = kr.val] ELSE p,
          pp     |-> pp,
          calls  |-> <<Event("acquire", IF kr.ok THEN "ok" ELSE "failed", <<>>, kr.val,
                             p.user_name, 0)>>]
    ELSE [failed |-> PromptFailed(typed),
          params |-> IF typed.ok THEN [p EXCEPT !.password = TypedPassword(typed.val)] ELSE p,
          pp     |-> PwdPromptsAfterPop(pp),
          calls  |-> <<Event("prompt", "pwd", PwdPromptText(pp, p.user_name), typed.val,
                             p.user_name, 0)>>]

do_connect ==
    /\ pc = "do_connect"
    /\ NumReqs < MaxReqs
    /\ IF MissingParams(params)
       THEN /\ Return(Err("missing", "", "do_connect", Len(log)))
            /\ UNCHANGED <<params, pwd_prompts, log>>
       ELSE \E kr \in KeychainResults, typed \in PwdPromptResults,
                 r \in RepliesTo("Connect") :
              LET acq  == AcquirePassword(params, pwd_prompts, kr, typed)
                  got  == log \o acq.calls
                  sent == got \o <<ReqEvent("Connect", <<>>, acq.params, CONNECT_TIMEOUT),
                                   RespEvent(r)>>
                  how  == ConnectReply(r)
              IN  /\ pwd_prompts' = acq.pp
                  /\ params' = acq.params
                  /\ IF acq.failed
                     THEN /\ log' = got
                          /\ Return(Err("prompt", "", "do_connect", Len(got)))
                     ELSE /\ log' = sent
                          /\ IF how = "ok"
                             THEN pc' = "do_status" /\ UNCHANGED <<ret, result, ignored>>
                             ELSE Return(Err(how, r.msg, "do_connect", Len(sent)))
    /\ UNCHANGED <<cmd, mfa, input>>
    /\ UNCHANGED tunVars

(***************************************************************************)
(* ServiceController::do_disconnect                                        *)
(***************************************************************************)
do_disconnect ==
    /\ pc = "do_disconnect"
    /\ NumReqs < MaxReqs
    /\ \E r \in RepliesTo("Disconnect") :
          LET sent == log \o <<ReqEvent("Disconnect", <<>>, params, RECV_TIMEOUT), RespEvent(r)>>
              how  == DisconnectReply(r)
          IN  /\ log' = sent
              /\ IF how = "ok"
                 THEN pc' = "do_status" /\ UNCHANGED <<ret, result, ignored>>
                 ELSE Return(Err(how, r.msg, "do_disconnect", Len(sent)))
    /\ UNCHANGED <<cmd, params, pwd_prompts, mfa, input>>
    /\ UNCHANGED tunVars

(***************************************************************************)
(* ServiceController::do_info                                              *)
(***************************************************************************)
do_info ==
    /\ pc = "do_info"
    /\ \E ok \in BOOLEAN :
          /\ log' = Append(log, Event("info", IF ok THEN "ok" ELSE "failed", <<>>, <<>>,
                                      params.user_name, 0))
          /\ IF ok
             THEN Return(OkStatus([cs |-> FALSE, mfa |-> "none"], "do_info", Len(log')))
             ELSE Return(Err("info", "", "do_info", Len(log')))
    /\ UNCHANGED <<cmd, params, pwd_prompts, mfa, input>>
    /\ UNCHANGED tunVars

(***************************************************************************)
(* The IPsec tunnel (src/tunnel/ipsec.rs).                                 *)
(***************************************************************************)
Tunnels == 1..MaxTunnels

TunInit ==
    /\ cpc = [t \in Tunnels |-> "idle"]
    /\ rpc = [t \in Tunnels |-> "none"]
    /\ dpc = [t \in Tunnels |-> "none"]
    /\ wpc = [t \in Tunnels |-> "none"]
    /\ configures = [t \in Tunnels |-> 0]
    /\ cleanups = [t \in Tunnels |-> 0]
    /\ cleaned = [t \in Tunnels |-> FALSE]
    /\ listener = [t \in Tunnels |-> "none"]
    /\ connected = [t \in Tunnels |-> FALSE]
    /\ stop = [t \in Tunnels |-> "pending"]
    /\ run_result = [t \in Tunnels |-> "none"]
    /\ keepalive = [t \in Tunnels |-> "idle"]

(***************************************************************************)
(* SnxIpsecTunnel::create: one action per await or ? of the function       *)
(***************************************************************************)
create(t) ==
    /\ cpc[t] = "idle"
    /\ cpc' = [cpc EXCEPT ![t] = "get_client_settings"]
    /\ UNCHANGED <<rpc, dpc, wpc, configures, cleanups, cleaned, listener, connected, stop,
                   run_result, keepalive>>
    /\ UNCHANGED ctlVars

\* client.get_client_settings(..).await?
create_get_client_settings(t) ==
    /\ cpc[t] = "get_client_settings"
    /\ \E ok \in BOOLEAN : cpc' = [cpc EXCEPT ![t] = IF ok THEN "parse" ELSE "err"]
    /\ UNCHANGED <<rpc, dpc, wpc, configures, cleanups, cleaned, listener, connected, stop,
                   run_result, keepalive>>
    /\ UNCHANGED ctlVars

\* KeepaliveRunner::new(client_settings.gw_internal_ip.parse()?)
create_parse(t) ==
    /\ cpc[t] = "parse"
    /\ \E ok \in BOOLEAN : cpc' = [cpc EXCEPT ![t] = IF ok THEN "get_ipsec_tunnel_params" ELSE "err"]
    /\ UNCHANGED <<rpc, dpc, wpc, configures, cleanups, cleaned, listener, connected, stop,
                   run_result, keepalive>>
    /\ UNCHANGED ctlVars

\* client.get_ipsec_tunnel_params(..).await?
create_get_ipsec_tunnel_params(t) ==
    /\ cpc[t] = "get_ipsec_tunnel_params"
    /\ \E ok \in BOOLEAN : cpc' = [cpc EXCEPT ![t] = IF ok THEN "configure" ELSE "err"]
    /\ UNCHANGED <<rpc, dpc, wpc, configures, cleanups, cleaned, listener, connected, stop,
                   run_result, keepalive>>
    /\ UNCHANGED ctlVars

\* configurator.configure().await?; Ok(Self { .. })
create_configure(t) ==
    /\ cpc[t] = "configure"
    /\ configures' = [configures EXCEPT ![t] = @ + 1]
    /\ \E ok \in BOOLEAN : cpc' = [cpc EXCEPT ![t] = IF ok THEN "ok" ELSE "err"]
    /\ UNCHANGED <<rpc, dpc, wpc, cleanups, cleaned, listener, connected, stop, run_result, keepalive>>
    /\ UNCHANGED ctlVars

(***************************************************************************)
(* The driver's side of the stop channel                                   *)
(***************************************************************************)
\* the driver sends the stop signal, or drops the sender: either resolves
\* stop_receiver
stop_signal(t) ==
    /\ cpc[t] = "ok"
    /\ stop[t] = "pending"
    /\ \E s \in {"sent", "closed"} : stop' = [stop EXCEPT ![t] = s]
    /\ UNCHANGED <<cpc, rpc, dpc, wpc, configures, cleanups, cleaned, listener, connected,
                   run_result, keepalive>>
    /\ UNCHANGED ctlVars

(***************************************************************************)
(* SnxIpsecTunnel::run                                                     *)
(***************************************************************************)
\* run takes the tunnel create returned
CanRun(t) == cpc[t] = "ok" /\ rpc[t] = "none" /\ dpc[t] = "none"

run(t) ==
    /\ CanRun(t)
    /\ rpc' = [rpc EXCEPT ![t] = "start_decap_listener"]
    /\ UNCHANGED <<cpc, dpc, wpc, configures, cleanups, cleaned, listener, connected, stop,
                   run_result, keepalive>>
    /\ UNCHANGED ctlVars

\* the value stored into the connected flag
ConnectedValue_false == FALSE

ConnectedValue == TRUE

\* let sender = decap::start_decap_listener().await?; connected.store(true, ..)
run_start_decap_listener(t) ==
    /\ rpc[t] = "start_decap_listener"
    /\ \E ok \in BOOLEAN :
          IF ok
          THEN /\ listener' = [listener EXCEPT ![t] = "running"]
               /\ connected' = [connected EXCEPT ![t] = ConnectedValue]
               /\ rpc' = [rpc EXCEPT ![t] = "select"]
               /\ keepalive' = [keepalive EXCEPT ![t] = "running"]
               /\ UNCHANGED run_result
          ELSE /\ rpc' = [rpc EXCEPT ![t] = "exit"]
               /\ run_result' = [run_result EXCEPT ![t] = "err_listener"]
               /\ UNCHANGED <<listener, connected, keepalive>>
    /\ UNCHANGED <<cpc, dpc, wpc, configures, cleanups, cleaned, stop>>
    /\ UNCHANGED ctlVars

\* what run evaluates to on the stop branch, delivered or not:
\* let _ = sender.send(()); Ok(())
StopBranchResult_checked(delivered) == IF delivered THEN "ok" ELSE "err_send"

StopBranchResult(delivered) == "ok"

\* what keepalive_runner.run() resolves to
KeepaliveOutcomes == {"keepalive_ok", "keepalive_err"}

\* what run evaluates to on the keepalive branch: err = .. => err
KeepaliveBranchResult_swallowed(res) == "ok"

KeepaliveBranchResult(res) == res

\* select!: _ = stop_receiver => { let _ = sender.send(()); Ok(()) }
run_stop_branch(t) ==
    /\ rpc[t] = "select"
    /\ stop[t] # "pending"
    /\ \E delivered \in BOOLEAN :
          /\ listener' = [listener EXCEPT ![t] = IF delivered THEN "stop_sent" ELSE "send_failed"]
          /\ run_result' = [run_result EXCEPT ![t] = StopBranchResult(delivered)]
    /\ keepalive' = [keepalive EXCEPT ![t] = "abandoned"]
    /\ rpc' = [rpc EXCEPT ![t] = "exit"]
    /\ UNCHANGED <<cpc, dpc, wpc, configures, cleanups, cleaned, connected, stop>>
    /\ UNCHANGED ctlVars

\* select!: err = self.keepalive_runner.run() => err; sender goes out of scope
run_keepalive_branch(t) ==
    /\ rpc[t] = "select"
    /\ \E res \in KeepaliveOutcomes :
          /\ keepalive' = [keepalive EXCEPT ![t] = res]
          /\ run_result' = [run_result EXCEPT ![t] = KeepaliveBranchResult(res)]
    /\ listener' = [listener EXCEPT ![t] = "sender_dropped"]
    /\ rpc' = [rpc EXCEPT ![t] = "exit"]
    /\ UNCHANGED <<cpc, dpc, wpc, configures, cleanups, cleaned, connected, stop>>
    /\ UNCHANGED ctlVars

\* the driver drops the future of run at one of its awaits
run_abandon(t) ==
    /\ rpc[t] \in {"start_decap_listener", "select"}
    /\ rpc' = [rpc EXCEPT ![t] = "abandoned"]
    /\ listener' = [listener EXCEPT ![t] = IF @ = "running" THEN "sender_dropped" ELSE @]
    /\ keepalive' = [keepalive EXCEPT ![t] = IF @ = "running" THEN "abandoned" ELSE @]
    /\ UNCHANGED <<cpc, dpc, wpc, configures, cleanups, cleaned, connected, stop, run_result>>
    /\ UNCHANGED ctlVars

\* run hands its result to the driver once self has been dropped
run_return(t) ==
    /\ rpc[t] = "exit"
    /\ dpc[t] \in {"returned", "panicked"}
    /\ rpc' = [rpc EXCEPT ![t] = IF dpc[t] = "returned" THEN "returned" ELSE "panicked"]
    /\ UNCHANGED <<cpc, dpc, wpc, configures, cleanups, cleaned, listener, connected, stop,
                   run_result, keepalive>>
    /\ UNCHANGED ctlVars

(***************************************************************************)
(* impl Drop for SnxIpsecTunnel                                            *)
(***************************************************************************)
\* The tunnel is dropped where its owner lets go of it: the driver that never
\* called run, the end of run (self: Box<Self>), the abandoned future of run.
CanDrop_partial(t) ==
    cpc[t] \in {"ok", "err"} /\ dpc[t] = "none" /\ rpc[t] \in {"none", "exit", "abandoned"}

CanDrop(t) == cpc[t] = "ok" /\ dpc[t] = "none" /\ rpc[t] \in {"none", "exit", "abandoned"}

\* std::thread::scope(|s| { s.spawn(..) })
drop(t) ==
    /\ CanDrop(t)
    /\ dpc' = [dpc EXCEPT ![t] = "scope"]
    /\ wpc' = [wpc EXCEPT ![t] = "build"]
    /\ UNCHANGED <<cpc, rpc, configures, cleanups, cleaned, listener, connected, stop,
                   run_result, keepalive>>
    /\ UNCHANGED ctlVars

\* the outcomes of Builder::new_current_thread().enable_all().build()
BuildOutcomes == {"ok", "err"}

\* worker: let rt = ..build().unwrap(); rt.block_on(self.configurator.cleanup())
drop_worker_build(t) ==
    /\ wpc[t] = "build"
    /\ \E b \in BuildOutcomes :
          IF b = "ok"
          THEN /\ wpc' = [wpc EXCEPT ![t] = "cleanup"]
               /\ cleanups' = [cleanups EXCEPT ![t] = @ + 1]
          ELSE /\ wpc' = [wpc EXCEPT ![t] = "panicked"]
               /\ UNCHANGED cleanups
    /\ UNCHANGED <<cpc, rpc, dpc, configures, cleaned, listener, connected, stop, run_result, keepalive>>
    /\ UNCHANGED ctlVars

\* worker: configurator.cleanup() returns, block_on returns, the thread ends
drop_worker_cleanup(t) ==
    /\ wpc[t] = "cleanup"
    /\ wpc' = [wpc EXCEPT ![t] = "done"]
    /\ cleaned' = [cleaned EXCEPT ![t] = TRUE]
    /\ UNCHANGED <<cpc, rpc, dpc, configures, cleanups, listener, connected, stop, run_result, keepalive>>
    /\ UNCHANGED ctlVars

\* thread::scope as it would be with a detached, fire-and-forget worker
ScopeCanReturn_detached(t) == TRUE

\* thread::scope returns once every scoped thread has ended
ScopeCanReturn(t) == wpc[t] \in {"done", "panicked"}

\* the end of thread::scope: it panics when the scoped thread panicked
drop_scope_join(t) ==
    /\ dpc[t] = "scope"
    /\ ScopeCanReturn(t)
    /\ dpc' = [dpc EXCEPT ![t] = IF wpc[t] = "panicked" THEN "panicked" ELSE "returned"]
    /\ UNCHANGED <<cpc, rpc, wpc, configures, cleanups, cleaned, listener, connected, stop,
                   run_result, keepalive>>
    /\ UNCHANGED ctlVars

(***************************************************************************)
(* Specifications                                                          *)
(***************************************************************************)
Commands == {"Status", "Connect", "Disconnect", "Reconnect", "Info"}

\* the configuration the controller has while the tunnels are followed
QuietParams ==
    [server_name |-> "gw", login_type |-> "vpn", user_name |-> "alice",
     password |-> <<>>, client_cert |-> FALSE, no_keychain |-> FALSE]

Init == CtlInit /\ TunInit

Next ==
    \/ \E c \in Commands : command(c)
    \/ fill_pwd_prompts
    \/ do_status
    \/ get_mfa_input
    \/ do_challenge_code
    \/ do_connect
    \/ do_disconnect
    \/ do_info

Spec == Init /\ [][Next]_vars

TunnelInit == CtlInit /\ params = QuietParams /\ TunInit

TunnelNext ==
    \E t \in Tunnels :
        \/ create(t)
        \/ create_get_client_settings(t)
        \/ create_parse(t)
        \/ create_get_ipsec_tunnel_params(t)
        \/ create_configure(t)
        \/ stop_signal(t)
        \/ run(t)
        \/ run_start_decap_listener(t)
        \/ run_stop_branch(t)
        \/ run_keepalive_branch(t)
        \/ run_abandon(t)
        \/ run_return(t)
        \/ drop(t)
        \/ drop_worker_build(t)
        \/ drop_worker_cleanup(t)
        \/ drop_scope_join(t)

TunnelSpec == TunnelInit /\ [][TunnelNext]_vars

(***************************************************************************)
(* Properties of the tunnel lifecycle (TunnelSpec)                         *)
(***************************************************************************)
Destroyed(t) == dpc[t] \in {"returned", "panicked"}

\* C1: configurator.cleanup is invoked exactly once for every tunnel create
\* returned, however its lifetime ended: never twice, and once the tunnel
\* is destroyed not zero times.
C1_CleanupExactlyOnce ==
    \A t \in Tunnels :
        /\ cleanups[t] <= 1
        /\ Destroyed(t) => cleanups[t] = 1

IsReqOf(e, k) == e.ev = "req" /\ e.kind = k
ReqIdx(l, k) == {i \in 1..Len(l) : IsReqOf(l[i], k)}
IsReplyTo(i, k) == i > 1 /\ log[i].ev = "resp" /\ IsReqOf(log[i - 1], k)
IsTransportFailure(i) == log[i].ev = "resp" /\ log[i].kind = "transport"
IsMfaCall(e) == (e.ev = "prompt" /\ e.kind = "mfa") \/ e.ev \in {"open", "otp"}
FillIdx == {i \in 1..Len(log) : log[i].ev = "fill"}
NumGetStatus == Cardinality(ReqIdx(log, "GetStatus"))
NumChallenge == Cardinality(ReqIdx(log, "ChallengeCode"))
\* replies Ok to a ChallengeCode
ChallengeOk == {i \in 1..Len(log) : IsReplyTo(i, "ChallengeCode") /\ log[i].kind = "Ok"}
\* replies to GetStatus that report connected_since = None and a challenge
PendingMfaReplies ==
    {i \in 1..Len(log) : /\ IsReplyTo(i, "GetStatus")
                         /\ log[i].kind = "ConnectionStatus"
                         /\ ~log[i].cs
                         /\ log[i].mfa # "none"}
UserInputReplies == {i \in PendingMfaReplies : log[i].mfa = "UserInput"}
SsoReplies == {i \in PendingMfaReplies : log[i].mfa = "SamlSso"}
MfaPrompts == {i \in 1..Len(log) : log[i].ev = "prompt" /\ log[i].kind = "mfa"}
PwdPrompts(l) == {i \in 1..Len(l) : l[i].ev = "prompt" /\ l[i].kind = "pwd"}
Stores == {i \in 1..Len(log) : log[i].ev = "store"}
Opens == {i \in 1..Len(log) : log[i].ev = "open"}
\* the Result made at log position i is an error of this kind and message, and
\* it ended the command or was the one Reconnect discarded
FailsAt(i, kind, msg) ==
    \/ pc = "done" /\ result.at = i /\ result.kind = kind /\ result.msg = msg
    \/ ignored.at = i /\ ignored.kind = kind /\ ignored.msg = msg

\* the transport failure at log position i ended the command: it is the
\* command's result and neither a request nor an MFA resolution follows it
EndsCommand(i) ==
    /\ \A j \in (i + 1)..Len(log) : ~IsReq(log[j]) /\ ~IsMfaCall(log[j])
    /\ pc = "done"
    /\ result.kind = "transport"
    /\ result.at = i

\* C3 as stated: in Status, Connect, Disconnect and Reconnect every exchange
\* that ends in a transport failure fails the command with that transport
\* error, and no request and no MFA resolution follows.
C3_TransportFailureFailsCommand ==
    cmd \in {"Status", "Connect", "Disconnect", "Reconnect"} =>
        \A i \in 1..Len(log) : IsTransportFailure(i) => EndsCommand(i)

\* position i lies in the best-effort disconnect step of Reconnect
InReconnectDisconnectStep(i) == cmd = "Reconnect" /\ \A j \in 1..i : log[j].ev # "fill"

\* C3 as amended: a transport failure fails the command with that transport
\* error and nothing follows it, in Status, Connect, Disconnect and in the
\* connect step of Reconnect; a transport failure in the disconnect step of
\* Reconnect is the result Reconnect discards, and never the command's result.
C3_TransportFailureFailsCommandButReconnectDisconnect ==
    \A i \in 1..Len(log) :
        IsTransportFailure(i) =>
            IF InReconnectDisconnectStep(i)
            THEN ignored.kind = "transport" /\ ignored.at = i /\ result.at # i
            ELSE EndsCommand(i)

C3_Witness ==
    /\ cmd = "Reconnect"
    /\ pc = "done"
    /\ ignored.kind = "transport"
    /\ result.kind = "transport"
    /\ result.by = "do_challenge_code"

FirstReplyIsUserInputChallenge == 2 \in UserInputReplies

\* C5 as stated: a Status command whose first GetStatus reports
\* connected_since = None and a UserInput challenge has invoked the secure
\* prompt exactly once when it returns, whatever the service answered next.
C5_StatusPromptsExactlyOnce ==
    (cmd = "Status" /\ pc = "done" /\ FirstReplyIsUserInputChallenge) =>
        Cardinality(MfaPrompts) = 1

\* C5 as amended: in such a Status command the prompt is invoked exactly once
\* for each UserInput challenge reported: right after the reply that carries
\* it, with its prompt text, and never otherwise; do_status recurses at most
\* once per reported challenge.  The prompt is invoked once in the call only
\* if no further UserInput challenge is reported.
C5_StatusPromptsOncePerChallenge ==
    (cmd = "Status" /\ FirstReplyIsUserInputChallenge) =>
        /\ \A i \in UserInputReplies :
              IF i = Len(log)
              THEN pc = "get_mfa_input"
              ELSE /\ log[i + 1].ev = "prompt"
                   /\ log[i + 1].kind = "mfa"
                   /\ log[i + 1].txt = MfaPrompt("UserInput")
        /\ \A i \in MfaPrompts : (i - 1) \in UserInputReplies
        /\ NumGetStatus <= Cardinality(PendingMfaReplies) + 1
        /\ (pc = "done" /\ Cardinality(UserInputReplies) = 1) => Cardinality(MfaPrompts) = 1

C5_Witness ==
    /\ cmd = "Status"
    /\ pc = "done"
    /\ FirstReplyIsUserInputChallenge
    /\ Cardinality(MfaPrompts) = 2

\* a Connect that succeeded and reports connected_since set, with a non-empty
\* password and the keychain enabled
ConnectSucceeded ==
    /\ cmd = "Connect"
    /\ pc = "done"
    /\ result.kind = "ok"
    /\ result.cs
    /\ params.password # <<>>
    /\ ~params.no_keychain

StoresCarryUserAndPassword ==
    \A i \in Stores : log[i].user = params.user_name /\ log[i].pw = params.password

\* C6 as stated: such a Connect has called store_password exactly once, with
\* the user name and the password used, whatever the initial Status reported.
C6_ConnectStoresExactlyOnce ==
    ConnectSucceeded => Cardinality(Stores) = 1 /\ StoresCarryUserAndPassword

\* the password was acquired by do_connect, so it was empty during the
\* initial Status
PasswordAcquired ==
    \E i \in 1..Len(log) : log[i].ev = "acquire" \/ (log[i].ev = "prompt" /\ log[i].kind = "pwd")

\* the initial Status of the command ended on a reply with connected_since set
InitialStatusConnected ==
    \E c \in ReqIdx(log, "Connect") :
        \E i \in 1..(c - 1) :
            IsReplyTo(i, "GetStatus") /\ log[i].kind = "ConnectionStatus" /\ log[i].cs

\* C6 as amended: such a Connect has called store_password once for each of
\* its two status checks that reported connected_since set while the password
\* was non-empty: once, or twice when the initial Status already reported
\* connected and the configured password was non-empty; every call carries the
\* user name and the password used.
C6_ConnectStoresOncePerConnectedStatus ==
    ConnectSucceeded =>
        /\ Cardinality(Stores) = (IF InitialStatusConnected /\ ~PasswordAcquired THEN 2 ELSE 1)
        /\ StoresCarryUserAndPassword

C6_Witness ==
    /\ ConnectSucceeded
    /\ InitialStatusConnected
    /\ Cardinality(Stores) = 2

\* C7: Reconnect sends Disconnect before anything else; whatever the
\* disconnect step returned, the prompts are fetched again and do_connect
\* runs, and the command's result is made after the fetch, by the connect
\* step, never by the disconnect step.
C7_ReconnectIgnoresDisconnectOutcome ==
    cmd = "Reconnect" =>
        /\ log # <<>> => IsReqOf(log[1], "Disconnect")
        /\ pc = "done" =>
              /\ ignored.kind # "none"
              /\ \E f \in FillIdx : ignored.at < f /\ result.at >= f
              /\ result.by = "do_connect" \/ ReqIdx(log, "Connect") # {}

C7_Witness ==
    /\ cmd = "Reconnect"
    /\ pc = "done"
    /\ ignored.kind = "transport"
    /\ ignored.by = "do_disconnect"
    /\ result.kind = "ok"

StatusFns == {"do_status", "get_mfa_input", "do_challenge_code"}

\* the requests of a Disconnect command: GetStatus first, at most one
\* Disconnect, sent only after a Status that succeeded
DisconnectOrder ==
    /\ log # <<>> => IsReqOf(log[1], "GetStatus")
    /\ ReqIdx(log, "Connect") = {}
    /\ Cardinality(ReqIdx(log, "Disconnect")) <= 1
    /\ \A d \in ReqIdx(log, "Disconnect") :
          /\ \E i \in 1..(d - 1) :
                /\ IsReplyTo(i, "GetStatus")
                /\ log[i].kind = "ConnectionStatus"
                /\ log[i].cs \/ log[i].mfa = "none"
                /\ \A j \in (i + 1)..(d - 1) : log[j].ev = "store"
          /\ d + 1 < Len(log) => IsReqOf(log[d + 2], "GetStatus")
          /\ (d + 1 = Len(log) /\ log[d + 1].kind # "transport") => pc = "do_status"

\* C8 as stated: a Disconnect command does Status, the Disconnect request,
\* Status again; no Disconnect request after a failed first Status; and its
\* result is the result of the final Status.
C8_DisconnectResultIsFinalStatus ==
    cmd = "Disconnect" =>
        /\ DisconnectOrder
        /\ pc = "done" => result.by \in StatusFns

\* C8 as amended: the same, but when the Disconnect exchange itself ends in a
\* transport failure that error is the command's result and no Status
\* follows; otherwise the result is the result of the Status run after the
\* Disconnect request (or of the first Status, when that one failed).
C8_DisconnectResultIsFinalStatusOrTransportError ==
    cmd = "Disconnect" =>
        /\ DisconnectOrder
        /\ pc = "done" =>
              IF result.by = "do_disconnect"
              THEN /\ result.kind = "transport"
                   /\ result.at = Len(log)
                   /\ IsReplyTo(Len(log), "Disconnect")
                   /\ log[Len(log)].kind = "transport"
              ELSE /\ result.by \in StatusFns
                   /\ \A d \in ReqIdx(log, "Disconnect") : result.at > d + 1
                   /\ (ReqIdx(log, "Disconnect") = {}) => result.kind # "ok"

C8_Witness ==
    /\ cmd = "Disconnect"
    /\ pc = "done"
    /\ result.kind = "ok"
    /\ \E d \in ReqIdx(log, "Disconnect") : \E c \in ReqIdx(log, "ChallengeCode") : c < d

\* C9: a reply with connected_since = None and a SamlSso challenge makes the
\* controller open the challenge URL and wait for the OTP listener; a code that
\* arrives is sent in the very next request, ChallengeCode(code, params) with
\* the long timeout; a failed open, a listener error or the timeout fail the
\* attempt and no ChallengeCode follows.  An Ok reply to ChallengeCode leads to
\* GetStatus, an Error(msg) reply fails with msg.
C9_SamlSsoResolution ==
    /\ \A i \in SsoReplies :
          IF i = Len(log)
          THEN pc = "get_mfa_input"
          ELSE log[i + 1].ev = "open" /\ log[i + 1].txt = MfaPrompt("SamlSso")
    /\ \A i \in Opens :
          /\ (i - 1) \in SsoReplies
          /\ log[i].kind = "ok" => (i < Len(log) /\ log[i + 1].ev = "otp")
          /\ IF log[i].kind = "ok" /\ log[i + 1].kind = "code"
             THEN IF i + 1 = Len(log)
                  THEN pc = "do_challenge_code" /\ input = log[i + 1].txt
                  ELSE /\ IsReqOf(log[i + 2], "ChallengeCode")
                       /\ log[i + 2].txt = log[i + 1].txt
                       /\ log[i + 2].user = params.user_name
                       /\ log[i + 2].t = CONNECT_TIMEOUT
             ELSE LET last == IF log[i].kind = "ok" THEN i + 1 ELSE i
                  IN  /\ FailsAt(last, "sso", "")
                      /\ last < Len(log) => ~IsReqOf(log[last + 1], "ChallengeCode")
    /\ \A j \in ReqIdx(log, "ChallengeCode") :
          /\ log[j + 1].kind = "Ok" =>
                IF j + 1 = Len(log) THEN pc = "do_status" ELSE IsReqOf(log[j + 2], "GetStatus")
          /\ log[j + 1].kind = "Error" => FailsAt(j + 1, "protocol", log[j + 1].txt[1])

C9_Witness ==
    /\ pc = "done"
    /\ result.kind = "ok"
    /\ \E j \in ReqIdx(log, "ChallengeCode") :
          /\ log[j].txt = <<"123456">>
          /\ log[j - 1].ev = "otp"
          /\ log[j - 2].ev = "open"
          /\ log[j + 1].kind = "Ok"

\* do_connect of a Connect is about to acquire a password with an empty
\* configured password and no_keychain = true
PromptCase ==
    /\ cmd = "Connect"
    /\ pc = "do_connect"
    /\ ~MissingParams(params)
    /\ params.password = <<>>
    /\ params.no_keychain

\* this step of do_connect invokes the password prompt once, with the first
\* queued prompt (taking it off the queue) or else the default text, and the
\* Connect request it sends carries the trimmed line that was typed
PromptStep ==
    /\ PwdPrompts(log) = {}
    /\ Cardinality(PwdPrompts(log')) = 1
    /\ LET i == CHOOSE k \in PwdPrompts(log') : TRUE
       IN  /\ log'[i].txt = IF pwd_prompts.some /\ pwd_prompts.q # <<>>
                            THEN Head(pwd_prompts.q)
                            ELSE <<"Enter password for ", params.user_name, ": ">>
           /\ pwd_prompts'.q = IF pwd_prompts.q # <<>> THEN Tail(pwd_prompts.q) ELSE <<>>
           /\ \A c \in ReqIdx(log', "Connect") :
                 /\ c = i + 1
                 /\ log'[c].pw = trim(log'[i].pw)
                 /\ log'[c].pw = params'.password

\* C10 as stated: in a Connect with an empty password and no_keychain = true
\* the password prompt is invoked once, with the first queued prompt or the
\* default text, and its trimmed result is the password of the Connect request.
C10_EmptyPasswordPrompts ==
    [][PromptCase => PromptStep]_vars

\* C10 as amended: the same when, in addition, no client certificate is
\* configured; with a client certificate there is no prompt at all.
C10_EmptyPasswordPromptsWithoutCertificate ==
    /\ [](Cardinality(PwdPrompts(log)) <= 1)
    /\ [][(PromptCase /\ ~params.client_cert) => PromptStep]_vars
    /\ [][(PromptCase /\ params.client_cert) => PwdPrompts(log') = {}]_vars

C10_Witness ==
    /\ cmd = "Connect"
    /\ pwd_prompts.q # <<>>
    /\ \E i \in PwdPrompts(log) :
          /\ log[i].txt = ServerPrompts[1]
          /\ log[i].pw = <<" ", "s", "3", "\n">>
          /\ i < Len(log)
          /\ IsReqOf(log[i + 1], "Connect")
          /\ log[i + 1].pw = <<"s", "3">>

(***************************************************************************)
(* C11                                                                     *)
(***************************************************************************)
Acquires(l) == {i \in 1..Len(l) : l[i].ev = "acquire"}

\* C11: a Connect with a non-empty password and no_keychain = false never
\* invokes the secure prompt for a password; when the password was configured
\* (not looked up), it reaches the Connect request as configured, without a
\* keychain lookup either.
C11_PasswordAndKeychainNeverPrompt ==
    /\ []((cmd = "Connect" /\ params.password # <<>> /\ ~params.no_keychain)
            => PwdPrompts(log) = {})
    /\ [][(cmd = "Connect" /\ pc = "do_connect" /\ params.password # <<>>
             /\ ~params.no_keychain)
            => /\ PwdPrompts(log') = {}
               /\ Acquires(log') = Acquires(log)
               /\ params' = params
               /\ \A c \in ReqIdx(log', "Connect") : log'[c].pw = params.password]_vars

C11_Witness ==
    /\ cmd = "Connect"
    /\ pc = "done"
    /\ result.kind = "ok"
    /\ params.password = <<"p", "w">>
    /\ ~params.no_keychain
    /\ Acquires(log) = {}
    /\ ReqIdx(log, "Connect") # {}

(***************************************************************************)
(* C12                                                                     *)
(***************************************************************************)
\* C12: with the server name or the login type missing, a Connect or Reconnect
\* fails with the missing-parameters error before any network activity: no
\* prompt prefetch, no GetStatus, no Disconnect, no Connect request.
C12_MissingParamsFailBeforeNetwork ==
    (cmd \in {"Connect", "Reconnect"} /\ MissingParams(params))
        => /\ FillIdx = {}
           /\ NumReqs = 0
           /\ pc = "done" => result.kind = "missing"

(***************************************************************************)
(* C13                                                                     *)
(***************************************************************************)
FailedLookups == {i \in Acquires(log) : log[i].kind = "failed"}
FailedPwdPrompts == {i \in PwdPrompts(log) : log[i].pw = <<>>}

\* C13 as stated: in a Connect, a failed keychain lookup or a failed password
\* prompt makes the command fail, and no Connect request follows it.
C13_AcquisitionFailuresFailCommand ==
    cmd = "Connect" =>
        \A i \in FailedLookups \cup FailedPwdPrompts :
            /\ \A c \in ReqIdx(log, "Connect") : c < i
            /\ pc = "done" => result.kind # "ok"

\* C13 as amended: a failed password prompt ends the command with the prompt's
\* error and nothing is sent after it; a failed keychain lookup is ignored and
\* the Connect request follows it at once, carrying the empty password.
C13_PromptFailureFailsCommandLookupFailureIgnored ==
    cmd = "Connect" =>
        /\ \A i \in FailedPwdPrompts :
               /\ i = Len(log)
               /\ pc = "done"
               /\ result = Err("prompt", "", "do_connect", i)
        /\ \A i \in FailedLookups :
               /\ i < Len(log)
               /\ IsReqOf(log[i + 1], "Connect")
               /\ log[i + 1].pw = <<>>

C13_Witness ==
    /\ cmd = "Connect"
    /\ FailedPwdPrompts # {}
    /\ ReqIdx(log, "GetStatus") # {}
    /\ ReqIdx(log, "Connect") = {}
    /\ result.kind = "prompt"

(***************************************************************************)
(* C14                                                                     *)
(***************************************************************************)
RequestKinds == {"GetStatus", "Connect", "ChallengeCode", "Disconnect"}
ErrorReplies ==
    {i \in 1..Len(log) : log[i].kind = "Error" /\ \E k \in RequestKinds : IsReplyTo(i, k)}
UnexpectedReplies ==
    {i \in 1..Len(log) :
        \/ IsReplyTo(i, "GetStatus") /\ log[i].kind = "Ok"
        \/ /\ \E k \in RequestKinds \ {"GetStatus"} : IsReplyTo(i, k)
           /\ log[i].kind = "ConnectionStatus"}

\* C14: for each request kind an Error(message) reply makes the command fail
\* with that message and a reply of an unexpected variant makes it fail with
\* the invalid-response error; neither is accepted as success.
C14_ProtocolErrorsSurfaced ==
    /\ \A i \in ErrorReplies : FailsAt(i, "protocol", log[i].txt[1])
    /\ \A i \in UnexpectedReplies : FailsAt(i, "invalid", "")

(***************************************************************************)
(* C20                                                                     *)
(***************************************************************************)
\* every Connect request has a GetStatus before it and, when answered Ok, a
\* GetStatus next (or do_status about to send it)
ConnectBetweenStatuses ==
    \A c \in ReqIdx(log, "Connect") :
        /\ \E g \in ReqIdx(log, "GetStatus") : g < c
        /\ log[c + 1].kind = "Ok" =>
              IF c + 1 = Len(log) THEN pc = "do_status" ELSE IsReqOf(log[c + 2], "GetStatus")

\* a Connect that ended without a Connect request ended on a failed initial
\* status, on missing parameters or on a failed password prompt
NoConnectOnlyOnFailure ==
    (pc = "done" /\ ReqIdx(log, "Connect") = {}) =>
        \/ result.by \in StatusFns /\ result.kind # "ok"
        \/ result.by = "do_connect" /\ result.kind \in {"missing", "prompt"}

\* C20: in a Connect the Connect request is sent whenever the initial status
\* succeeds, the parameters are present and the acquisition does not fail,
\* whatever that status reported; it is preceded by a GetStatus and followed,
\* on Ok, by another.
C20_ConnectSentAfterAnySuccessfulStatus ==
    /\ [](cmd = "Connect" => ConnectBetweenStatuses /\ NoConnectOnlyOnFailure)
    /\ [][(cmd = "Connect" /\ ret = "connect_pre" /\ ret' # ret)
            => \/ pc' = "do_connect" /\ ReqIdx(log', "GetStatus") # {}
               \/ pc' = "done" /\ result'.kind # "ok"]_vars
    /\ [][(cmd = "Connect" /\ pc = "do_connect" /\ ~MissingParams(params))
            => \/ ReqIdx(log', "Connect") # {}
               \/ pc' = "done" /\ result'.kind = "prompt"]_vars

C20_Witness ==
    /\ cmd = "Connect"
    /\ \E c \in ReqIdx(log, "Connect") :
          /\ \E k \in ReqIdx(log, "ChallengeCode") : k < c
          /\ \E i \in 1..(c - 1) : IsReplyTo(i, "GetStatus") /\ log[i].cs
          /\ log[c + 1].kind = "Ok"
          /\ c + 2 <= Len(log)
          /\ IsReqOf(log[c + 2], "GetStatus")

(***************************************************************************)
(* C15                                                                     *)
(***************************************************************************)
BeforeConfigure == {"idle", "get_client_settings", "parse", "get_ipsec_tunnel_params"}

\* the steps of create are taken in the order of the function
CreateOrder(t) ==
    /\ cpc'[t] = "parse" => cpc[t] \in {"get_client_settings", "parse"}
    /\ cpc'[t] = "get_ipsec_tunnel_params" => cpc[t] \in {"parse", "get_ipsec_tunnel_params"}
    /\ cpc'[t] = "configure" => cpc[t] \in {"get_ipsec_tunnel_params", "configure"}
    /\ cpc'[t] = "ok" => cpc[t] \in {"configure", "ok"}
    /\ configures'[t] # configures[t] => cpc[t] = "configure"

\* C15: when a step of create fails, create returns the error, there is no
\* tunnel object (nothing runs, nothing is dropped) and cleanup is not invoked;
\* configure is invoked at most once, after both fetches and the parse
\* succeeded, so a failure before it installs nothing.
C15_FailedCreateOwesNoCleanup ==
    /\ [](\A t \in Tunnels :
            /\ cpc[t] = "err" =>
                  /\ cleanups[t] = 0 /\ ~cleaned[t]
                  /\ rpc[t] = "none" /\ dpc[t] = "none" /\ wpc[t] = "none"
            /\ configures[t] <= 1
            /\ cpc[t] \in BeforeConfigure \cup {"configure"} => configures[t] = 0
            /\ cpc[t] = "ok" => configures[t] = 1)
    /\ [][\A t \in Tunnels :
            /\ CreateOrder(t)
            /\ (cpc[t] \in BeforeConfigure /\ cpc'[t] = "err") => configures'[t] = 0
            /\ cpc[t] = "err" => cpc'[t] = "err"]_vars

C15_Witness ==
    \E t \in Tunnels : cpc[t] = "err" /\ configures[t] = 1 /\ cleanups[t] = 0

(***************************************************************************)
(* C16                                                                     *)
(***************************************************************************)
\* C16: destroying a tunnel never fails: whatever goes wrong in teardown, drop
\* returns normally and raises no panic to what caused the destruction.
C16_DropNeverFails ==
    \A t \in Tunnels : dpc[t] # "panicked" /\ rpc[t] # "panicked"

(***************************************************************************)
(* C17                                                                     *)
(***************************************************************************)
LeftSelect(t) == rpc[t] \in {"exit", "returned", "panicked"} /\ run_result[t] # "err_listener"
StopAttempted(t) == listener[t] \in {"stop_sent", "send_failed"}

\* the stop signal is sent exactly on the stop branch, before run returns, and
\* run returns Ok there even when the send fails
StopSentOnStopBranch(t) ==
    /\ StopAttempted(t) <=> (LeftSelect(t) /\ run_result[t] = "ok")
    /\ StopAttempted(t) => stop[t] # "pending"
    /\ listener[t] = "send_failed" => run_result[t] = "ok"
    /\ run_result[t] \in {"none", "ok", "err_listener"} \cup KeepaliveOutcomes

\* C17 as stated: the stop signal is sent exactly on the stop branch, run
\* returns Ok there even if the send fails, and whenever run returns after
\* having started the listener the listener has been signalled to stop.
C17_ListenerSignalledOnEveryReturn ==
    \A t \in Tunnels :
        /\ StopSentOnStopBranch(t)
        /\ LeftSelect(t) => StopAttempted(t)

\* C17 as amended: the same on the stop branch; on the keepalive branch run
\* returns with the stop handle dropped and no stop signal sent.
C17_ListenerSignalledOnStopBranchOnly ==
    \A t \in Tunnels :
        /\ StopSentOnStopBranch(t)
        /\ (LeftSelect(t) /\ run_result[t] = "ok") => StopAttempted(t)
        /\ (LeftSelect(t) /\ run_result[t] \in KeepaliveOutcomes) => listener[t] = "sender_dropped"

C17_Witness ==
    \E t \in Tunnels :
        rpc[t] = "returned" /\ listener[t] = "send_failed" /\ run_result[t] = "ok"

(***************************************************************************)
(* C18                                                                     *)
(***************************************************************************)
\* C18: run races the stop signal against the keepalive runner: when the
\* keepalive runner completes first run returns its result unchanged; when the
\* stop signal resolves first run returns Ok and the keepalive runner is
\* abandoned and never polled again; run does not return while neither has
\* resolved.
C18_FirstResolvedBranchDecides ==
    /\ [](\A t \in Tunnels :
            /\ keepalive[t] \in KeepaliveOutcomes <=> run_result[t] \in KeepaliveOutcomes
            /\ keepalive[t] \in KeepaliveOutcomes => run_result[t] = keepalive[t]
            /\ run_result[t] = "ok" => keepalive[t] = "abandoned" /\ stop[t] # "pending"
            /\ LeftSelect(t) => (keepalive[t] \in KeepaliveOutcomes \/ stop[t] # "pending"))
    /\ [][\A t \in Tunnels :
            /\ keepalive[t] = "abandoned" => keepalive'[t] = "abandoned"
            /\ keepalive[t] \in KeepaliveOutcomes => keepalive'[t] = keepalive[t]
            /\ run_result[t] # "none" => run_result'[t] = run_result[t]
            /\ (rpc[t] = "select" /\ rpc'[t] = "exit") =>
                  \/ stop[t] # "pending" /\ run_result'[t] = "ok" /\ keepalive'[t] = "abandoned"
                  \/ keepalive'[t] \in KeepaliveOutcomes /\ run_result'[t] = keepalive'[t]]_vars

C18_Witness ==
    \E t \in Tunnels :
        /\ rpc[t] = "returned"
        /\ keepalive[t] = "keepalive_err"
        /\ run_result[t] = "keepalive_err"
        /\ stop[t] = "pending"

(***************************************************************************)
(* C19                                                                     *)
(***************************************************************************)
\* C19: the connected flag is written only by run, only with true, at most
\* once per tunnel and only after the listener was started: a set flag implies
\* a started listener, a failed start leaves the flag unchanged, and the flag
\* stays true after run returns through either branch.
C19_ConnectedSetOnceAfterListener ==
    /\ [](\A t \in Tunnels :
            /\ connected[t] <=> listener[t] # "none"
            /\ run_result[t] = "err_listener" => ~connected[t]
            /\ LeftSelect(t) => connected[t])
    /\ [][\A t \in Tunnels :
            /\ connected[t] => connected'[t]
            /\ connected'[t] # connected[t] =>
                  /\ rpc[t] = "start_decap_listener" /\ rpc'[t] = "select"
                  /\ listener'[t] = "running"]_vars

C19_Witness ==
    \E t \in Tunnels :
        rpc[t] = "returned" /\ connected[t] /\ run_result[t] = "keepalive_ok"

====
